---- MODULE Spec2Model ----
(***************************************************************************)
(* A model of blkcgroup_test_lib.py: the parser of experiment texts        *)
(* (parse_experiment), the synthesis of worker commands (setup_worker,     *)
(* setup_worker_files), the batch driver (run_experiments,                 *)
(* run_single_experiment), the worker processes of one experiment          *)
(* (run_worker_processes_in_parallel, run_worker, kill_slower_workers)     *)
(* and the scorer (score_max_error, score_experiment).                     *)
(*                                                                         *)
(* Containers and tasks are numbered from 1 here (Python numbers them      *)
(* from 0); experiments and data files keep Python's numbering, from 0.    *)
(* A text is a sequence of characters.                                     *)
(***************************************************************************)
EXTENDS Integers, Sequences, FiniteSets, TLC

\* ------------------------------------------------------------------ bounds

MaxExperiments == 2     \* experiments of a batch
MaxContainers == 2      \* containers of one experiment
MaxTasks == 2           \* tasks of one experiment of a batch
MaxRace == 3            \* tasks of the worker-only specification
MaxTime == 3            \* largest disk-time reading of the scorer specification
MaxMB == 4              \* largest seq_read_mb
MaxPieces == 5          \* pieces of a text of the parser specification
MaxRepeat == 2          \* largest repeat of the synthesis specification

\* ------------------------------------------------------- program constants

MAX_VALID_WEIGHT == 1000

VARIABLES
    \* ---- the batch driver (test_harness.run_experiments)
    pc,                   \* position of the driving process
    exper_num,            \* i of the for loop over experiments
    group_isolation,      \* the device's queue/iosched/group_isolation
    old_group_isolation,  \* the value read before the batch
    kill_slower,          \* argument of run_experiments
    timeout,              \* argument of run_experiments: TRUE when not ''
    pre_experiment_cb,    \* argument of run_experiments: TRUE when given
    post_experiment_cb,   \* argument of run_experiments: TRUE when given
    tried_experiments,
    passed_experiments,
    seq_read_mb,          \* argument of run_experiments
    cpuset_hierarchy,     \* the blkio root cgroup is a view of the cpuset hierarchy
    input_file_count,
    output_file_count,
    existing_input_files, \* size in MiB of each input file made so far, by number
    \* ---- one experiment (test_harness.run_single_experiment)
    experiment,           \* the text of the experiment
    exper,                \* the parsed containers
    allowed_error,
    container_names,      \* number of containers setup_containers created so far
    live,                 \* isolation units created and not released: <<exper_num, c>>
    timevals,
    \* ---- the worker processes of one experiment
    runners,              \* the tasks: runners[t] is the container task t is bound to
    pids_file_on,         \* pids_file != ''
    nforked,              \* tasks forked by the parent so far
    nreaped,              \* tasks reaped by the parent so far
    tpc,                  \* position of each task process
    payload,              \* state of each task's payload command
    pids_file,            \* the pending-workers file
    moved_pids_file,      \* pids_file + '.moved'
    kill_list,            \* per task: lines of the moved file still to be read
    \* ---- history (not program state)
    stages,               \* stages the current experiment completed, in order
    started,              \* experiments run_single_experiment was entered for
    failed,               \* <<experiment, stage>>: the stage raised in the experiment
    built,                \* experiments whose setup_containers completed
    released,             \* experiments whose release_containers completed
    switched,             \* set_group_isolation(device, '1') was done
    refused,              \* setup_container raised for the mount topology
    input_requests,       \* what some_zeroed_input_file was asked and ran in the batch
    renamed,              \* tasks whose os.rename succeeded in the current run, in order
    signals,              \* <<from, to>>: task from ran 'kill <pid of to>'
    first_exit            \* payloads running when the first payload exited

driver_vars == <<pc, exper_num, group_isolation, old_group_isolation, kill_slower,
                 timeout, pre_experiment_cb, post_experiment_cb, tried_experiments,
                 passed_experiments, exper, allowed_error, container_names, live,
                 timevals, stages, started, failed, built, released, switched,
                 seq_read_mb, cpuset_hierarchy, input_file_count, output_file_count,
                 existing_input_files, experiment, refused, input_requests>>

file_vars == <<input_file_count, output_file_count, existing_input_files,
               input_requests>>

worker_vars == <<runners, pids_file_on, nforked, nreaped, tpc, payload, pids_file,
                 moved_pids_file, kill_list, renamed, signals, first_exit>>

vars == <<driver_vars, worker_vars>>

\* ------------------------------------------------------------ the workers

Tasks == 1..Len(runners)

NoFile == [exists |-> FALSE, lines |-> <<>>]

NotYet == [seen |-> FALSE, running |-> {}]

\* The worker state at the entry of run_worker_processes_in_parallel.
WorkersReset(r, on) ==
    /\ runners' = r
    /\ pids_file_on' = on
    /\ nforked' = 0
    /\ nreaped' = 0
    /\ tpc' = [t \in 1..Len(r) |-> "unforked"]
    /\ payload' = [t \in 1..Len(r) |-> "none"]
    /\ kill_list' = [t \in 1..Len(r) |-> <<>>]
    /\ renamed' = <<>>
    /\ signals' = {}
    /\ first_exit' = NotYet

\* pid = os.fork() in the parent's loop over runners
Fork(t) ==
    /\ pc = "LaunchAndRun"
    /\ t = nforked + 1
    /\ t \in Tasks
    /\ nforked' = t
    /\ tpc' = [tpc EXCEPT ![t] = "start"]
    /\ UNCHANGED <<driver_vars, runners, pids_file_on, nreaped, payload, pids_file,
                   moved_pids_file, kill_list, renamed, signals, first_exit>>

\* cpu_cgroup.move_my_task_here()
MoveCpu(t) ==
    /\ t \in Tasks
    /\ tpc[t] = "start"
    /\ tpc' = [tpc EXCEPT ![t] = "in_cpu"]
    /\ UNCHANGED <<driver_vars, runners, pids_file_on, nforked, nreaped, payload,
                   pids_file, moved_pids_file, kill_list, renamed, signals,
                   first_exit>>

\* blkio_cgroup.move_my_task_here()
MoveBlkio(t) ==
    /\ t \in Tasks
    /\ tpc[t] = "in_cpu"
    /\ tpc' = [tpc EXCEPT ![t] = "in_blkio"]
    /\ UNCHANGED <<driver_vars, runners, pids_file_on, nforked, nreaped, payload,
                   pids_file, moved_pids_file, kill_list, renamed, signals,
                   first_exit>>

\* p = subprocess.Popen(cmd.split(), ...): the payload runs from here on
Spawn(t) ==
    /\ t \in Tasks
    /\ tpc[t] = "in_blkio"
    /\ payload' = [payload EXCEPT ![t] = "running"]
    /\ tpc' = [tpc EXCEPT ![t] = IF pids_file_on THEN "spawned" ELSE "waiting"]
    /\ UNCHANGED <<driver_vars, runners, pids_file_on, nforked, nreaped, pids_file,
                   moved_pids_file, kill_list, renamed, signals, first_exit>>

\* echo pid >> pids_file: creates the file when it is not there
AppendLine(f, t) == [exists |-> TRUE, lines |-> Append(f.lines, t)]

\* utils.system('echo %d >> %s' % (p.pid, pids_file))
AppendPid(t) ==
    /\ t \in Tasks
    /\ tpc[t] = "spawned"
    /\ pids_file' = AppendLine(pids_file, t)
    /\ tpc' = [tpc EXCEPT ![t] = "waiting"]
    /\ UNCHANGED <<driver_vars, runners, pids_file_on, nforked, nreaped, payload,
                   moved_pids_file, kill_list, renamed, signals, first_exit>>

\* The payload command comes to its natural end (the environment's step).
PayloadExit(t) ==
    /\ t \in Tasks
    /\ payload[t] = "running"
    /\ payload' = [payload EXCEPT ![t] = "exited"]
    /\ first_exit' = IF first_exit.seen THEN first_exit
                     ELSE [seen |-> TRUE,
                           running |-> {u \in Tasks \ {t} : payload[u] = "running"}]
    /\ UNCHANGED <<driver_vars, runners, pids_file_on, nforked, nreaped, tpc,
                   pids_file, moved_pids_file, kill_list, renamed, signals>>

\* p.wait() returns; without a pids_file the task then ends
Wait(t) ==
    /\ t \in Tasks
    /\ tpc[t] = "waiting"
    /\ payload[t] \in {"exited", "killed"}
    /\ tpc' = [tpc EXCEPT ![t] = IF pids_file_on THEN "finished" ELSE "zombie"]
    /\ UNCHANGED <<driver_vars, runners, pids_file_on, nforked, nreaped, payload,
                   pids_file, moved_pids_file, kill_list, renamed, signals,
                   first_exit>>

\* kill_slower_workers: os.rename(pids_file, moved_pids_file), which replaces an
\* existing moved file and raises OSError when pids_file is not there
Rename(t) ==
    /\ t \in Tasks
    /\ tpc[t] = "finished"
    /\ \/ /\ pids_file.exists
          /\ moved_pids_file' = pids_file
          /\ pids_file' = NoFile
          /\ kill_list' = [kill_list EXCEPT ![t] = pids_file.lines]
          /\ renamed' = Append(renamed, t)
          /\ tpc' = [tpc EXCEPT ![t] = "killing"]
       \/ /\ ~pids_file.exists
          /\ tpc' = [tpc EXCEPT ![t] = "zombie"]
          /\ UNCHANGED <<pids_file, moved_pids_file, kill_list, renamed>>
    /\ UNCHANGED <<driver_vars, runners, pids_file_on, nforked, nreaped, payload,
                   signals, first_exit>>

\* every line of the moved file would be sent the signal, the reader's own too
listed_pid(pid, fast_pid) == TRUE

\* if pid != fast_pid: the lines whose pid is sent 'kill'
slower_pid(pid, fast_pid) == pid # fast_pid

\* kill_slower_workers: one turn of the loop over the lines of the moved file
\* (kill pid unless pid == fast_pid; a kill of a process that is gone is ignored),
\* or the end of the loop and of the task
KillNext(t) ==
    /\ t \in Tasks
    /\ tpc[t] = "killing"
    /\ \/ /\ kill_list[t] # <<>>
          /\ LET pid == Head(kill_list[t]) IN
                /\ kill_list' = [kill_list EXCEPT ![t] = Tail(kill_list[t])]
                /\ signals' = IF slower_pid(pid, t) THEN signals \cup {<<t, pid>>}
                               ELSE signals
                /\ payload' = IF slower_pid(pid, t) /\ payload[pid] = "running"
                              THEN [payload EXCEPT ![pid] = "killed"]
                              ELSE payload
          /\ tpc' = tpc
       \/ /\ kill_list[t] = <<>>
          /\ tpc' = [tpc EXCEPT ![t] = "zombie"]
          /\ UNCHANGED <<kill_list, signals, payload>>
    /\ UNCHANGED <<driver_vars, runners, pids_file_on, nforked, nreaped, pids_file,
                   moved_pids_file, renamed, first_exit>>

\* a waitpid that does not block: it returns for any forked task
ReapableNoHang(t) == tpc[t] # "unforked"

\* os.waitpid(pid, 0) returns for a task that has exited
Reapable(t) == tpc[t] = "zombie"

\* pid, status = os.waitpid(pid, 0) in the parent's loop over pids
Reap(t) ==
    /\ pc = "LaunchAndRun"
    /\ nforked = Len(runners)
    /\ t = nreaped + 1
    /\ t \in Tasks
    /\ Reapable(t)
    /\ nreaped' = t
    /\ tpc' = [tpc EXCEPT ![t] = "reaped"]
    /\ UNCHANGED <<driver_vars, runners, pids_file_on, nforked, payload, pids_file,
                   moved_pids_file, kill_list, renamed, signals, first_exit>>

\* ------------------------------------------------------------- the scorer

\* total_time += timevals[container['name']], over the first c containers
RECURSIVE total_time(_, _)
total_time(tv, c) == IF c = 0 THEN 0 ELSE total_time(tv, c - 1) + tv[c]

Abs(x) == IF x < 0 THEN -x ELSE x

Max(a, b) == IF a >= b THEN a ELSE b

\* actual_weight = time * MAX_VALID_WEIGHT / (total_time or 1): Python 2's / on
\* two ints is the floor division
actual_weight(time, total) ==
    (time * MAX_VALID_WEIGHT) \div (IF total = 0 THEN 1 ELSE total)

\* maxerr of score_max_error after the loop has seen the first c containers
RECURSIVE maxerr_loop(_, _, _, _)
maxerr_loop(tree, tv, total, c) ==
    IF c = 0 THEN 0
    ELSE Max(maxerr_loop(tree, tv, total, c - 1),
             Abs(actual_weight(tv[c], total) - tree[c].dtf))

\* score_max_error(tree, timevals)[0]
score_max_error(tree, tv) == maxerr_loop(tree, tv, total_time(tv, Len(tree)), Len(tree))

\* the comparison with < in place of <=
passing_strict(maxerr_weight, allowed_err) == maxerr_weight < allowed_err

\* passing = maxerr_weight <= allowed_err
passing(maxerr_weight, allowed_err) == maxerr_weight <= allowed_err

\* score_experiment(exper_num, exper, timevals, allowed_err)
score_experiment(tree, tv, allowed_err) == passing(score_max_error(tree, tv), allowed_err)

\* -------------------------------------------------------- the containers

Container(dtf, worker, repeat) == [dtf |-> dtf, worker |-> worker, worker_repeat |-> repeat]

\* ------------------------------------------------- the experiment parser
\* A text is a sequence of characters (strings of length one).

DigitChars == <<"0", "1", "2", "3", "4", "5", "6", "7", "8", "9">>

Digits == {DigitChars[i] : i \in 1..Len(DigitChars)}

DigitValue(c) == (CHOOSE i \in 1..Len(DigitChars) : DigitChars[i] = c) - 1

\* the characters str.lstrip() strips
Whitespace == {" ", "\t", "\n", "\r"}

\* the characters that end a word: ' ,*%();'
Delimiters == {" ", ",", "*", "%", "(", ")", ";"}

\* text[n:]
Rest(text, n) == SubSeq(text, n + 1, Len(text))

\* text.lstrip()
RECURSIVE lstrip(_)
lstrip(text) ==
    IF text # <<>> /\ Head(text) \in Whitespace THEN lstrip(Tail(text)) ELSE text

\* len(re.match('\d*', text).group())
RECURSIVE digit_run(_)
digit_run(text) ==
    IF text # <<>> /\ Head(text) \in Digits THEN 1 + digit_run(Tail(text)) ELSE 0

\* int(value) of a string of digits
RECURSIVE int(_)
int(value) ==
    IF value = <<>> THEN 0
    ELSE 10 * int(SubSeq(value, 1, Len(value) - 1)) + DigitValue(value[Len(value)])

\* what a parsing function gives when it raises (ValueError, IndexError)
ParseError == [ok |-> FALSE, value |-> <<>>, text |-> <<>>]

Parsed(value, text) == [ok |-> TRUE, value |-> value, text |-> text]

\* parse_integer(text): int('') raises ValueError
parse_integer(text) ==
    LET n == digit_run(text) IN
    IF n = 0 THEN [ParseError EXCEPT !.value = 0]
    ELSE Parsed(int(SubSeq(text, 1, n)), Rest(text, n))

\* lth of parse_name, from lth on: -1 when text[lth] is past the end (IndexError)
RECURSIVE name_length(_, _)
name_length(text, lth) ==
    IF lth >= Len(text) THEN -1
    ELSE IF text[lth + 1] \in Delimiters THEN lth
    ELSE name_length(text, lth + 1)

\* parse_name(text)
parse_name(text) ==
    LET lth == name_length(text, 0) IN
    IF lth < 0 THEN ParseError
    ELSE Parsed(SubSeq(text, 1, lth), Rest(text, lth))

\* repeat of parse_containers, and the text after it: for a worker name and
\* the text that follows it
parse_repeat(worker, text) ==
    IF worker = <<>> THEN Parsed(0, text)
    ELSE IF text = <<>> THEN [ParseError EXCEPT !.value = 0]
    ELSE LET repeat == IF Head(text) = "*" THEN parse_integer(Tail(text))
                       ELSE Parsed(1, text) IN
         IF ~repeat.ok THEN repeat ELSE Parsed(repeat.value, lstrip(repeat.text))

\* parse_containers(text): value is the list of containers
RECURSIVE parse_containers(_)
parse_containers(text) ==
    LET dtf == parse_integer(lstrip(text)) IN
    IF ~dtf.ok THEN ParseError ELSE
    LET options == parse_name(dtf.text) IN
    IF ~options.ok THEN ParseError ELSE
    LET worker == parse_name(lstrip(options.text)) IN
    IF ~worker.ok THEN ParseError ELSE
    LET repeat == parse_repeat(worker.value, worker.text) IN
    IF ~repeat.ok \/ repeat.text = <<>> THEN ParseError ELSE
    LET container == Container(dtf.value, worker.value, repeat.value) IN
    IF Head(repeat.text) # "," THEN Parsed(<<container>>, repeat.text) ELSE
    LET more == parse_containers(Tail(repeat.text)) IN
    IF ~more.ok THEN ParseError ELSE Parsed(<<container>> \o more.value, more.text)

\* expect_delim(text, delim)
expect_delim(text, delim) ==
    IF text = <<>> \/ Head(text) # delim THEN ParseError ELSE Parsed(<<>>, Tail(text))

\* parse_experiment(text): value is exper
parse_experiment(text) ==
    LET containers == parse_containers(text \o <<";">>) IN
    IF ~containers.ok THEN ParseError ELSE
    LET rest == expect_delim(containers.text, ";") IN
    IF ~rest.ok THEN ParseError ELSE Parsed(containers.value, <<>>)

\* ---------------------------------------------- the synthesis of commands

rdseq == <<"r", "d", "s", "e", "q">>

rdrand == <<"r", "d", "r", "a", "n", "d">>

wrseq == <<"w", "r", "s", "e", "q">>

sleep == <<"s", "l", "e", "e", "p">>

dir == <<"d", "i", "r">>

sync == <<"s", "y", "n", "c">>

delay == <<"d", "e", "l", "a", "y">>

\* text.startswith(prefix)
startswith(text, prefix) ==
    Len(text) >= Len(prefix) /\ SubSeq(text, 1, Len(prefix)) = prefix

\* the place of the first '.' of worker from i on, 0 when there is none
RECURSIVE first_dot(_, _)
first_dot(worker, i) ==
    IF i > Len(worker) THEN 0
    ELSE IF worker[i] = "." THEN i
    ELSE first_dot(worker, i + 1)

\* variant of setup_worker: worker.split('.', 1)[1], or '' without a '.'
variant_of(worker) ==
    LET dot == first_dot(worker, 1) IN
    IF dot = 0 THEN <<>> ELSE Rest(worker, dot)

\* The attributes of the harness that setup_worker reads and writes.
Self(icount, ocount, files, requests) ==
    [input_file_count |-> icount, output_file_count |-> ocount,
     existing_input_files |-> files, input_requests |-> requests]

\* a command line; the empty command has tool ""
Cmd(tool, file, count, extra_options) ==
    [tool |-> tool, file |-> file, count |-> count, extra_options |-> extra_options]

NoCmd == Cmd("", <<>>, 0, <<>>)

\* setup_worker returns cmd, or raises ValueError (with self as it is then)
Synthesized(self, cmd) == [ok |-> TRUE, self |-> self, cmd |-> cmd]

BadWorker(self) == [ok |-> FALSE, self |-> self, cmd |-> NoCmd]

\* '/bin/dd if=/dev/zero of=%s bs=1M seek=%d count=%d'
ZeroCmd(name, seek, count) == [file |-> name, seek |-> seek, count |-> count]

\* What the calls of some_zeroed_input_file were and did: the largest mbytes
\* asked for each file, and the dd commands run, in order.
InputRequests(largest, system) == [largest |-> largest, system |-> system]

NoRequests == InputRequests(<<>>, <<>>)

\* a file made again whenever the size asked is not the size held
other_size(mbytes, old_mbytes) == mbytes # old_mbytes

\* if mbytes > old_mbytes
too_small(mbytes, old_mbytes) == mbytes > old_mbytes

\* some_zeroed_input_file('rddata', mbytes): the file rddata<n> is made or grown
\* by dd when it is smaller than mbytes
some_zeroed_input_file(self, mbytes) ==
    LET name == self.input_file_count
        files == self.existing_input_files
        old_mbytes == IF name \in DOMAIN files THEN files[name] ELSE 0
        grows == too_small(mbytes, old_mbytes)
        largest == self.input_requests.largest
        system == self.input_requests.system
    IN  [name |-> <<"rddata", name>>,
         self |-> Self(self.input_file_count + 1, self.output_file_count,
                       IF grows
                       THEN [n \in DOMAIN files \cup {name} |->
                                IF n = name THEN mbytes ELSE files[n]]
                       ELSE files,
                       InputRequests(
                           [n \in DOMAIN largest \cup {name} |->
                               IF n \in DOMAIN largest
                               THEN IF n = name /\ mbytes > largest[n] THEN mbytes
                                    ELSE largest[n]
                               ELSE mbytes],
                           IF grows
                           THEN Append(system,
                                       ZeroCmd(name, old_mbytes, mbytes - old_mbytes))
                           ELSE system))]

\* some_output_file()
some_output_file(self) ==
    [name |-> <<"write", self.output_file_count>>,
     self |-> Self(self.input_file_count, self.output_file_count + 1,
                   self.existing_input_files, self.input_requests)]

log_iosize == 16

\* count of the rdrand command
rdrand_count(mbytes) == ((mbytes * 2^20) \div 2^log_iosize) \div 8

\* the sync variant with mbytes //= 2
sync_mbytes_halved(mbytes) == mbytes \div 2

\* mbytes //= 3
sync_mbytes(mbytes) == mbytes \div 3

\* the buffered variant with mbytes left as it is
buffered_mbytes_same(mbytes) == mbytes

\* mbytes *= 2
buffered_mbytes(mbytes) == mbytes * 2

\* setup_worker(worker, mbytes)
setup_worker(self, worker, mbytes) ==
    LET variant == variant_of(worker) IN
    IF startswith(worker, rdseq) THEN
        LET file == some_zeroed_input_file(self, mbytes) IN
        Synthesized(file.self,
                    Cmd("dd if", file.name, mbytes,
                        IF variant = dir THEN <<"iflag=direct">> ELSE <<>>))
    ELSE IF startswith(worker, rdrand) THEN
        LET file == some_zeroed_input_file(self, mbytes)
            ms == Rest(variant, 5)
        IN  IF startswith(variant, delay) THEN
                IF ms = <<>> \/ digit_run(ms) # Len(ms) THEN BadWorker(file.self)
                ELSE Synthesized(file.self,
                                 Cmd("rand_read", file.name, rdrand_count(mbytes),
                                     <<"-d", int(ms)>>))
            ELSE IF variant # <<>> THEN BadWorker(file.self)
            ELSE Synthesized(file.self,
                             Cmd("rand_read", file.name, rdrand_count(mbytes), <<>>))
    ELSE IF startswith(worker, wrseq) THEN
        LET file == some_output_file(self) IN
        IF variant = sync THEN
            Synthesized(file.self,
                        Cmd("dd of", file.name, sync_mbytes(mbytes) * 16,
                            <<"conv=fdatasync">>))
        ELSE IF variant = dir THEN
            Synthesized(file.self,
                        Cmd("dd of", file.name, mbytes * 16, <<"oflag=direct">>))
        ELSE Synthesized(file.self,
                         Cmd("dd of", file.name, buffered_mbytes(mbytes) * 16, <<>>))
    ELSE IF worker = <<>> \/ worker = sleep THEN Synthesized(self, NoCmd)
    ELSE BadWorker(self)

\* the loop over w of setup_worker_files, after w turns
RECURSIVE worker_cmds(_, _, _, _)
worker_cmds(self, container, read_mb, w) ==
    IF w = 0 THEN [ok |-> TRUE, self |-> self, cmds |-> <<>>]
    ELSE LET before == worker_cmds(self, container, read_mb, w - 1) IN
         IF ~before.ok THEN before
         ELSE LET per_worker_mbytes == read_mb \div container.worker_repeat
                  made == setup_worker(before.self, container.worker,
                                       per_worker_mbytes)
              IN  [ok |-> made.ok, self |-> made.self,
                   cmds |-> IF made.ok THEN Append(before.cmds, made.cmd)
                            ELSE before.cmds]

WithCmds(container, cmds) ==
    [dtf |-> container.dtf, worker |-> container.worker,
     worker_repeat |-> container.worker_repeat, worker_cmds |-> cmds]

\* setup_worker_files(seq_read_mb, tree, key_prefix), after the first c
\* containers: tree is the containers that got their worker_cmds
RECURSIVE setup_worker_files(_, _, _, _)
setup_worker_files(self, read_mb, tree, c) ==
    IF c = 0 THEN [ok |-> TRUE, self |-> self, tree |-> <<>>]
    ELSE LET before == setup_worker_files(self, read_mb, tree, c - 1) IN
         IF ~before.ok THEN before
         ELSE LET made == worker_cmds(before.self, tree[c], read_mb,
                                      tree[c].worker_repeat)
              IN  [ok |-> made.ok, self |-> made.self,
                   tree |-> IF made.ok
                            THEN Append(before.tree, WithCmds(tree[c], made.cmds))
                            ELSE before.tree]

\* every command of container['worker_cmds'], the empty ones too
NumWorkers(container) == Len(container.worker_cmds)

\* the non-empty commands among container['worker_cmds']
NumCmds(container) ==
    Cardinality({w \in DOMAIN container.worker_cmds :
                    container.worker_cmds[w] # NoCmd})

RECURSIVE container_tasks(_, _)
container_tasks(tree, c) ==
    IF c = 0 THEN <<>>
    ELSE container_tasks(tree, c - 1)
         \o [w \in 1..NumCmds(tree[c]) |-> [container |-> c, timer |-> FALSE]]

\* enum_worker_runners(tree, pids_file, timeout)
enum_worker_runners(tree, on, to) ==
    container_tasks(tree, Len(tree))
    \o (IF on /\ to THEN <<[container |-> 1, timer |-> TRUE]>> ELSE <<>>)

\* ------------------------------------------------------- the batch driver

\* The texts of the experiments of a batch.
Text500 == <<"5", "0", "0">>

Text1000 == <<"1", "0", "0", "0">>

ExperimentTexts ==
    <<Text500 \o <<" ">> \o rdseq \o <<",", " ">> \o Text500 \o <<" ">> \o rdseq,
      Text1000 \o <<" ">> \o rdseq,
      Text500 \o <<" ">> \o rdseq \o <<",", " ">> \o Text500,
      <<"9", "0", "0", " ">> \o sleep \o <<",", " ", "1", "0", "0">>,
      Text1000 \o <<" ", "b", "o", "g", "u", "s">>,
      Text1000 \o <<" ", "*", "2">>>>

\* The (experiment, allowed error) pairs a batch is made of: "500 rdseq, 500
\* rdseq", "1000 rdseq", "500 rdseq, 500", "900 sleep, 100", "1000 bogus" (a
\* worker name setup_worker does not know) and "1000 *2" (which does not parse).
Experiments ==
    { [text |-> ExperimentTexts[1], allowed |-> 50],
      [text |-> ExperimentTexts[2], allowed |-> 0],
      [text |-> ExperimentTexts[3], allowed |-> 50],
      [text |-> ExperimentTexts[4], allowed |-> 100],
      [text |-> ExperimentTexts[5], allowed |-> 50],
      [text |-> ExperimentTexts[6], allowed |-> 50] }

\* Disk-time readings of measure_containers.
TimeReadings == {0, 1}

AllUnits == {<<exper_num, c>> : c \in 1..Len(exper)}

\* a loop that catches the exception and goes on with the next experiment
RaisesAndContinues ==
    /\ pc' = "Loop"
    /\ exper_num' = exper_num + 1
    /\ failed' = failed \cup {<<exper_num, pc>>}
    /\ UNCHANGED <<group_isolation, old_group_isolation, kill_slower, timeout,
                   seq_read_mb, cpuset_hierarchy, pre_experiment_cb, post_experiment_cb,
                   tried_experiments, passed_experiments, exper, allowed_error,
                   container_names, live, timevals, stages, started, built, released,
                   switched, experiment, refused, file_vars>>
    /\ UNCHANGED worker_vars

\* An exception leaves run_single_experiment and the for loop of run_experiments,
\* which have no try statement: run_experiments ends there.
Raises ==
    /\ pc' = "aborted"
    /\ failed' = failed \cup {<<exper_num, pc>>}
    /\ UNCHANGED <<exper_num, group_isolation, old_group_isolation, kill_slower,
                   timeout, seq_read_mb, cpuset_hierarchy, pre_experiment_cb,
                   post_experiment_cb, tried_experiments, passed_experiments, exper,
                   allowed_error, container_names, live, timevals, stages, started,
                   built, released, switched, experiment, refused, file_vars>>
    /\ UNCHANGED worker_vars

\* the post hook called after remove_output_files
StageAfterSwapped(stage) ==
    CASE stage = "Parse" -> "AllocateFiles"
      [] stage = "AllocateFiles" -> "BuildTree"
      [] stage = "BuildTree" -> "PreHook"
      [] stage = "PreHook" -> "Launch"
      [] stage = "Launch" -> "LaunchAndRun"
      [] stage = "LaunchAndRun" -> "Measure"
      [] stage = "Measure" -> "Score"
      [] stage = "Score" -> "RemoveOutputFiles"
      [] stage = "RemoveOutputFiles" -> "PostHook"
      [] stage = "PostHook" -> "ReleaseTree"
      [] stage = "ReleaseTree" -> "Loop"

\* The statements of run_single_experiment, in their order.
StageAfter(stage) ==
    CASE stage = "Parse" -> "AllocateFiles"
      [] stage = "AllocateFiles" -> "BuildTree"
      [] stage = "BuildTree" -> "PreHook"
      [] stage = "PreHook" -> "Launch"
      [] stage = "Launch" -> "LaunchAndRun"
      [] stage = "LaunchAndRun" -> "Measure"
      [] stage = "Measure" -> "Score"
      [] stage = "Score" -> "PostHook"
      [] stage = "PostHook" -> "RemoveOutputFiles"
      [] stage = "RemoveOutputFiles" -> "ReleaseTree"
      [] stage = "ReleaseTree" -> "Loop"

\* The stage at pc completed: it is recorded and the next one is up.
Completes(stage) ==
    /\ pc' = StageAfter(stage)
    /\ stages' = Append(stages, stage)

\* run_experiments up to the loop: the checks of the work volume and the device
\* raise before the setting is touched; then get_group_isolation and
\* set_group_isolation(self.device, '1'), and the counters are zeroed
BatchSetup ==
    /\ pc = "Start"
    /\ \/ /\ pc' = "Loop"
          /\ old_group_isolation' = group_isolation
          /\ group_isolation' = "1"
          /\ switched' = TRUE
          /\ input_file_count' = 0
          /\ output_file_count' = 0
          /\ existing_input_files' = <<>>
          /\ input_requests' = NoRequests
          /\ tried_experiments' = 0
          /\ passed_experiments' = 0
       \/ /\ pc' = "aborted"
          /\ UNCHANGED <<old_group_isolation, group_isolation, switched,
                         tried_experiments, passed_experiments, file_vars>>
    /\ UNCHANGED <<exper_num, kill_slower, timeout, seq_read_mb, cpuset_hierarchy,
                   pre_experiment_cb, post_experiment_cb, exper, allowed_error,
                   container_names, live, timevals, stages, started, failed, built,
                   released, experiment, refused>>
    /\ UNCHANGED worker_vars

\* The tasks run_single_experiment would launch for a text (0 when it raises
\* before).
NumTasks(text, read_mb, on, to) ==
    LET parsed == parse_experiment(text)
        files == IF parsed.ok
                 THEN setup_worker_files(Self(0, 0, <<>>, NoRequests), read_mb,
                                         parsed.value, Len(parsed.value))
                 ELSE [ok |-> FALSE]
    IN  IF parsed.ok /\ files.ok THEN Len(enum_worker_runners(files.tree, on, to))
        ELSE 0

\* for i, experiment in enumerate(experiments): run_single_experiment is entered
\* with the text and the allowed error of the experiment, or the loop is over;
\* batch is the pairs the list experiments is made of
LoopOver(batch) ==
    /\ pc = "Loop"
    /\ \/ /\ exper_num < MaxExperiments
          /\ \E e \in batch :
                /\ NumTasks(e.text, seq_read_mb, kill_slower, timeout) <= MaxTasks
                /\ experiment' = e.text
                /\ allowed_error' = e.allowed
          /\ pc' = "Parse"
          /\ started' = started \cup {exper_num}
          /\ stages' = <<>>
       \/ /\ exper_num >= MaxExperiments
          /\ pc' = "Teardown"
          /\ UNCHANGED <<started, stages, experiment, allowed_error>>
    /\ UNCHANGED <<exper_num, group_isolation, old_group_isolation, kill_slower,
                   timeout, seq_read_mb, cpuset_hierarchy, pre_experiment_cb,
                   post_experiment_cb, tried_experiments, passed_experiments, exper,
                   container_names, live, timevals, failed, built, released,
                   switched, refused, file_vars>>
    /\ UNCHANGED worker_vars

Loop == LoopOver(Experiments)

\* exper = parse_experiment(experiment): the containers, or ValueError
Parse ==
    /\ pc = "Parse"
    /\ LET parsed == parse_experiment(experiment) IN
       \/ /\ parsed.ok
          /\ exper' = parsed.value
          /\ container_names' = 0
          /\ Completes("Parse")
          /\ UNCHANGED <<exper_num, group_isolation, old_group_isolation, kill_slower,
                         timeout, seq_read_mb, cpuset_hierarchy, pre_experiment_cb,
                         post_experiment_cb, tried_experiments, passed_experiments,
                         allowed_error, live, timevals, started, failed, built,
                         released, switched, experiment, refused, file_vars>>
          /\ UNCHANGED worker_vars
       \/ ~parsed.ok /\ Raises

\* self.input_file_count = self.output_file_count = 0, then setup_worker_files
\* (ValueError of setup_worker once the files of the workers before it are made,
\* or dd fails), then remove_file of both pids files with kill_slower, then
\* utils.drop_caches()
AllocateFiles ==
    /\ pc = "AllocateFiles"
    /\ LET files == setup_worker_files(Self(0, 0, existing_input_files,
                                            input_requests),
                                       seq_read_mb, exper, Len(exper)) IN
       \/ /\ files.ok
          /\ exper' = files.tree
          /\ input_file_count' = files.self.input_file_count
          /\ output_file_count' = files.self.output_file_count
          /\ existing_input_files' = files.self.existing_input_files
          /\ input_requests' = files.self.input_requests
          /\ pids_file' = IF kill_slower THEN NoFile ELSE pids_file
          /\ moved_pids_file' = IF kill_slower THEN NoFile ELSE moved_pids_file
          /\ Completes("AllocateFiles")
          /\ UNCHANGED <<exper_num, group_isolation, old_group_isolation, kill_slower,
                         timeout, seq_read_mb, cpuset_hierarchy, pre_experiment_cb,
                         post_experiment_cb, tried_experiments, passed_experiments,
                         allowed_error, container_names, live, timevals, started,
                         failed, built, released, switched, experiment, refused>>
          /\ UNCHANGED <<runners, pids_file_on, nforked, nreaped, tpc, payload,
                         kill_list, renamed, signals, first_exit>>
       \/ /\ ~files.ok
          /\ pc' = "aborted"
          /\ failed' = failed \cup {<<exper_num, pc>>}
          /\ input_file_count' = files.self.input_file_count
          /\ output_file_count' = files.self.output_file_count
          /\ existing_input_files' = files.self.existing_input_files
          /\ input_requests' = files.self.input_requests
          /\ UNCHANGED <<exper_num, group_isolation, old_group_isolation, kill_slower,
                         timeout, seq_read_mb, cpuset_hierarchy, pre_experiment_cb,
                         post_experiment_cb, tried_experiments, passed_experiments,
                         exper, allowed_error, container_names, live, timevals,
                         stages, started, built, released, switched, experiment,
                         refused>>
          /\ UNCHANGED worker_vars
       \/ Raises

\* setup_containers: one turn of its loop, setup_container raises ValueError when
\* the blkio cgroups are not in the cpuset hierarchy, and else creates the next
\* unit or raises
SetupContainer ==
    /\ pc = "BuildTree"
    /\ \/ /\ cpuset_hierarchy
          /\ container_names < Len(exper)
          /\ container_names' = container_names + 1
          /\ live' = live \cup {<<exper_num, container_names + 1>>}
          /\ IF container_names + 1 = Len(exper)
             THEN /\ Completes("BuildTree")
                  /\ built' = built \cup {exper_num}
             ELSE UNCHANGED <<pc, stages, built>>
          /\ UNCHANGED <<exper_num, group_isolation, old_group_isolation, kill_slower,
                         timeout, seq_read_mb, cpuset_hierarchy, pre_experiment_cb,
                         post_experiment_cb, tried_experiments, passed_experiments,
                         exper, allowed_error, timevals, started, failed, released,
                         switched, experiment, refused, file_vars>>
          /\ UNCHANGED worker_vars
       \/ /\ ~cpuset_hierarchy
          /\ container_names < Len(exper)
          /\ pc' = "aborted"
          /\ failed' = failed \cup {<<exper_num, pc>>}
          /\ refused' = TRUE
          /\ UNCHANGED <<exper_num, group_isolation, old_group_isolation, kill_slower,
                         timeout, seq_read_mb, cpuset_hierarchy, pre_experiment_cb,
                         post_experiment_cb, tried_experiments, passed_experiments,
                         exper, allowed_error, container_names, live, timevals,
                         stages, started, built, released, switched, experiment,
                         file_vars>>
          /\ UNCHANGED worker_vars
       \/ Raises

\* if pre_experiment_cb: pre_experiment_cb(container_names)
PreHook ==
    /\ pc = "PreHook"
    /\ \/ /\ IF pre_experiment_cb
             THEN Completes("PreHook")
             ELSE pc' = StageAfter("PreHook") /\ stages' = stages
          /\ UNCHANGED <<exper_num, group_isolation, old_group_isolation, kill_slower,
                         timeout, seq_read_mb, cpuset_hierarchy, pre_experiment_cb,
                         post_experiment_cb, tried_experiments, passed_experiments,
                         exper, allowed_error, container_names, live, timevals, started,
                         failed, built, released, switched, experiment, refused,
                         file_vars>>
          /\ UNCHANGED worker_vars
       \/ pre_experiment_cb /\ Raises

\* runners = self.enum_worker_runners(exper, pids_file, timeout), and
\* run_worker_processes_in_parallel is entered
Launch ==
    /\ pc = "Launch"
    /\ pc' = StageAfter("Launch")
    /\ WorkersReset(enum_worker_runners(exper, kill_slower, timeout), kill_slower)
    /\ UNCHANGED <<exper_num, group_isolation, old_group_isolation, kill_slower,
                   timeout, seq_read_mb, cpuset_hierarchy, pre_experiment_cb,
                   post_experiment_cb, tried_experiments, passed_experiments, exper,
                   allowed_error, container_names, live, timevals, stages, started,
                   failed, built, released, switched, experiment, refused, file_vars>>
    /\ UNCHANGED <<pids_file, moved_pids_file>>

\* os.fork() raises OSError in the parent
ForkFails ==
    /\ pc = "LaunchAndRun"
    /\ nforked < Len(runners)
    /\ Raises

\* run_worker_processes_in_parallel returns: both of its loops are over (the
\* history of the run is dropped with it)
RunReturn ==
    /\ pc = "LaunchAndRun"
    /\ nforked = Len(runners)
    /\ nreaped = Len(runners)
    /\ Completes("LaunchAndRun")
    /\ renamed' = <<>>
    /\ signals' = {}
    /\ first_exit' = NotYet
    /\ UNCHANGED <<exper_num, group_isolation, old_group_isolation, kill_slower,
                   timeout, seq_read_mb, cpuset_hierarchy, pre_experiment_cb,
                   post_experiment_cb, tried_experiments, passed_experiments, exper,
                   allowed_error, container_names, live, timevals, started, failed,
                   built, released, switched, experiment, refused, file_vars>>
    /\ UNCHANGED <<runners, pids_file_on, nforked, nreaped, tpc, payload, pids_file,
                   moved_pids_file, kill_list>>

\* measure_containers: a container whose 'time' attribute has a line for the
\* device gets its reading, another one gets no entry
Measure ==
    /\ pc = "Measure"
    /\ \/ /\ \E measured \in SUBSET (1..Len(exper)) :
                \E tv \in [measured -> TimeReadings] : timevals' = tv
          /\ Completes("Measure")
          /\ UNCHANGED <<exper_num, group_isolation, old_group_isolation, kill_slower,
                         timeout, seq_read_mb, cpuset_hierarchy, pre_experiment_cb,
                         post_experiment_cb, tried_experiments, passed_experiments,
                         exper, allowed_error, container_names, live, started, failed,
                         built, released, switched, experiment, refused, file_vars>>
          /\ UNCHANGED worker_vars
       \/ Raises

\* passing = score_experiment(...), which raises KeyError for a container with no
\* entry in timevals; then the two counters
Score ==
    /\ pc = "Score"
    /\ \/ /\ DOMAIN timevals = 1..Len(exper)
          /\ passed_experiments' =
                IF score_experiment(exper, timevals, allowed_error)
                THEN passed_experiments + 1 ELSE passed_experiments
          /\ tried_experiments' = tried_experiments + 1
          /\ Completes("Score")
          /\ UNCHANGED <<exper_num, group_isolation, old_group_isolation, kill_slower,
                         timeout, seq_read_mb, cpuset_hierarchy, pre_experiment_cb,
                         post_experiment_cb, exper, allowed_error, container_names,
                         live, timevals, started, failed, built, released, switched,
                         experiment, refused, file_vars>>
          /\ UNCHANGED worker_vars
       \/ DOMAIN timevals # 1..Len(exper) /\ Raises

\* if post_experiment_cb: post_experiment_cb(container_names)
PostHook ==
    /\ pc = "PostHook"
    /\ \/ /\ IF post_experiment_cb
             THEN Completes("PostHook")
             ELSE pc' = StageAfter("PostHook") /\ stages' = stages
          /\ UNCHANGED <<exper_num, group_isolation, old_group_isolation, kill_slower,
                         timeout, seq_read_mb, cpuset_hierarchy, pre_experiment_cb,
                         post_experiment_cb, tried_experiments, passed_experiments,
                         exper, allowed_error, container_names, live, timevals, started,
                         failed, built, released, switched, experiment, refused,
                         file_vars>>
          /\ UNCHANGED worker_vars
       \/ post_experiment_cb /\ Raises

\* self.remove_output_files()
RemoveOutputFiles ==
    /\ pc = "RemoveOutputFiles"
    /\ \/ /\ Completes("RemoveOutputFiles")
          /\ output_file_count' = 0
          /\ UNCHANGED <<exper_num, group_isolation, old_group_isolation, kill_slower,
                         timeout, seq_read_mb, cpuset_hierarchy, pre_experiment_cb,
                         post_experiment_cb, tried_experiments, passed_experiments,
                         exper, allowed_error, container_names, live, timevals, started,
                         failed, built, released, switched, experiment, refused,
                         input_file_count, existing_input_files, input_requests>>
          /\ UNCHANGED worker_vars
       \/ Raises

\* a release that leaves the unit in place
release_nothing(unit) == live

\* container['cpu_cgroup'].release(); container['blkio_cgroup'].release()
release(unit) == live \ {unit}

\* release_containers: one turn of its loop; after the last one
\* run_single_experiment returns, and its locals and the reaped processes are gone
ReleaseContainer ==
    /\ pc = "ReleaseTree"
    /\ \/ /\ \E c \in 1..Len(exper) :
                /\ <<exper_num, c>> \in live
                /\ \A b \in 1..(c - 1) : <<exper_num, b>> \notin live
                /\ live' = release(<<exper_num, c>>)
                /\ IF c = Len(exper)
                   THEN /\ Completes("ReleaseTree")
                        /\ released' = released \cup {exper_num}
                        /\ exper_num' = exper_num + 1
                        /\ experiment' = <<>>
                        /\ exper' = <<>>
                        /\ allowed_error' = 0
                        /\ container_names' = 0
                        /\ timevals' = <<>>
                        /\ runners' = <<>>
                        /\ tpc' = <<>>
                        /\ payload' = <<>>
                        /\ kill_list' = <<>>
                        /\ nforked' = 0
                        /\ nreaped' = 0
                   ELSE UNCHANGED <<pc, stages, released, exper_num, experiment,
                                    exper, allowed_error, container_names, timevals,
                                    runners, tpc, payload, kill_list, nforked,
                                    nreaped>>
          /\ UNCHANGED <<group_isolation, old_group_isolation, kill_slower, timeout,
                         seq_read_mb, cpuset_hierarchy, pre_experiment_cb,
                         post_experiment_cb, tried_experiments, passed_experiments,
                         started, failed, built, switched, refused, file_vars>>
          /\ UNCHANGED <<pids_file_on, pids_file, moved_pids_file, renamed, signals,
                         first_exit>>
       \/ Raises

\* after the loop: utils.system('rm -rf %s' % self.workdir), which may raise, then
\* set_group_isolation(self.device, old_group_isolation)
Teardown ==
    /\ pc = "Teardown"
    /\ \/ /\ pc' = "done"
          /\ group_isolation' = old_group_isolation
       \/ /\ pc' = "aborted"
          /\ group_isolation' = group_isolation
    /\ UNCHANGED <<exper_num, old_group_isolation, kill_slower, timeout, seq_read_mb,
                   cpuset_hierarchy, pre_experiment_cb, post_experiment_cb,
                   tried_experiments, passed_experiments, exper, allowed_error,
                   container_names, live, timevals, stages, started, failed, built,
                   released, switched, experiment, refused, file_vars>>
    /\ UNCHANGED worker_vars

DriverStep ==
    \/ BatchSetup
    \/ Loop
    \/ Parse
    \/ AllocateFiles
    \/ SetupContainer
    \/ PreHook
    \/ Launch
    \/ ForkFails
    \/ RunReturn
    \/ Measure
    \/ Score
    \/ PostHook
    \/ RemoveOutputFiles
    \/ ReleaseContainer
    \/ Teardown

WorkerStep ==
    \/ \E t \in Tasks : Fork(t)
    \/ \E t \in Tasks : MoveCpu(t)
    \/ \E t \in Tasks : MoveBlkio(t)
    \/ \E t \in Tasks : Spawn(t)
    \/ \E t \in Tasks : AppendPid(t)
    \/ \E t \in Tasks : PayloadExit(t)
    \/ \E t \in Tasks : Wait(t)
    \/ \E t \in Tasks : Rename(t)
    \/ \E t \in Tasks : KillNext(t)
    \/ \E t \in Tasks : Reap(t)

\* run_experiments is called: its arguments and the device's setting are any.
Init ==
    /\ pc = "Start"
    /\ exper_num = 0
    /\ group_isolation \in {"0", "1"}
    /\ old_group_isolation = ""
    /\ kill_slower \in BOOLEAN
    /\ timeout \in BOOLEAN
    /\ pre_experiment_cb \in BOOLEAN
    /\ post_experiment_cb \in BOOLEAN
    /\ tried_experiments = 0
    /\ passed_experiments = 0
    /\ seq_read_mb = MaxMB
    /\ cpuset_hierarchy \in BOOLEAN
    /\ input_file_count = 0
    /\ output_file_count = 0
    /\ existing_input_files = <<>>
    /\ input_requests = NoRequests
    /\ experiment = <<>>
    /\ refused = FALSE
    /\ exper = <<>>
    /\ allowed_error = 0
    /\ container_names = 0
    /\ live = {}
    /\ timevals = <<>>
    /\ stages = <<>>
    /\ started = {}
    /\ failed = {}
    /\ built = {}
    /\ released = {}
    /\ switched = FALSE
    /\ runners = <<>>
    /\ pids_file_on = FALSE
    /\ nforked = 0
    /\ nreaped = 0
    /\ tpc = <<>>
    /\ payload = <<>>
    /\ pids_file = NoFile
    /\ moved_pids_file = NoFile
    /\ kill_list = <<>>
    /\ renamed = <<>>
    /\ signals = {}
    /\ first_exit = NotYet

Next == DriverStep \/ WorkerStep

Spec == Init /\ [][Next]_vars

\* The driver's variables while only the workers of one experiment are looked at.
DriverIdle ==
    /\ pc = "LaunchAndRun"
    /\ exper_num = 0
    /\ group_isolation = "1"
    /\ old_group_isolation = "0"
    /\ timeout = FALSE
    /\ pre_experiment_cb = FALSE
    /\ post_experiment_cb = FALSE
    /\ tried_experiments = 0
    /\ passed_experiments = 0
    /\ seq_read_mb = MaxMB
    /\ cpuset_hierarchy = TRUE
    /\ input_file_count = 0
    /\ output_file_count = 0
    /\ existing_input_files = <<>>
    /\ input_requests = NoRequests
    /\ experiment = <<>>
    /\ refused = FALSE
    /\ exper = <<>>
    /\ allowed_error = 0
    /\ container_names = 0
    /\ live = {}
    /\ timevals = <<>>
    /\ stages = <<>>
    /\ started = {0}
    /\ failed = {}
    /\ built = {0}
    /\ released = {}
    /\ switched = TRUE

\* run_worker_processes_in_parallel is entered with 1..MaxRace tasks; with
\* kill_slower, run_single_experiment has removed both pids files before.
InitWorkers ==
    /\ DriverIdle
    /\ kill_slower \in BOOLEAN
    /\ \E n \in 1..MaxRace :
          /\ runners = [t \in 1..n |-> [container |-> 1, timer |-> FALSE]]
          /\ tpc = [t \in 1..n |-> "unforked"]
          /\ payload = [t \in 1..n |-> "none"]
          /\ kill_list = [t \in 1..n |-> <<>>]
    /\ pids_file_on = kill_slower
    /\ nforked = 0
    /\ nreaped = 0
    /\ pids_file = NoFile
    /\ moved_pids_file = NoFile
    /\ renamed = <<>>
    /\ signals = {}
    /\ first_exit = NotYet

NextWorkers == WorkerStep

SpecWorkers == InitWorkers /\ [][NextWorkers]_vars

\* ------------------------------------------------- the scorer on its own

ScoreWeights == {0, 333, 500, 1000}

AllowedErrors == {0, 167, 500}

\* score_experiment is entered in the first experiment of a batch, for any
\* containers, readings and allowed error.
InitScore ==
    /\ pc = "Score"
    /\ exper_num = 0
    /\ group_isolation = "1"
    /\ old_group_isolation = "0"
    /\ kill_slower = FALSE
    /\ timeout = FALSE
    /\ pre_experiment_cb = FALSE
    /\ post_experiment_cb = FALSE
    /\ tried_experiments = 0
    /\ passed_experiments = 0
    /\ seq_read_mb = MaxMB
    /\ cpuset_hierarchy = TRUE
    /\ experiment = <<>>
    /\ refused = FALSE
    /\ \E n \in 1..MaxContainers :
          /\ \E tree \in [1..n -> {Container(w, rdseq, 1) : w \in ScoreWeights}] :
                LET files == setup_worker_files(Self(0, 0, <<>>, NoRequests), MaxMB,
                                                tree, n) IN
                /\ exper = files.tree
                /\ input_file_count = files.self.input_file_count
                /\ output_file_count = files.self.output_file_count
                /\ existing_input_files = files.self.existing_input_files
                /\ input_requests = files.self.input_requests
          /\ \E measured \in {1..n, 1..(n - 1)} : timevals \in [measured -> 0..MaxTime]
          /\ container_names = n
          /\ live = {<<0, c>> : c \in 1..n}
    /\ allowed_error \in AllowedErrors
    /\ stages = <<"Parse", "AllocateFiles", "BuildTree", "LaunchAndRun", "Measure">>
    /\ started = {0}
    /\ failed = {}
    /\ built = {0}
    /\ released = {}
    /\ switched = TRUE
    /\ runners = <<>>
    /\ pids_file_on = FALSE
    /\ nforked = 0
    /\ nreaped = 0
    /\ tpc = <<>>
    /\ payload = <<>>
    /\ pids_file = NoFile
    /\ moved_pids_file = NoFile
    /\ kill_list = <<>>
    /\ renamed = <<>>
    /\ signals = {}
    /\ first_exit = NotYet

NextScore == Score

SpecScore == InitScore /\ [][NextScore]_vars

\* ------------------------------------- the parser and the files on their own

\* The words the texts are made of.
Pieces ==
    { <<"2">>, <<" ">>, <<",">>, <<";">>, <<"*", "2">>, <<"*", "0">>, <<"x">>,
      rdseq, rdrand \o <<".", "x">> }

\* the texts of at most n pieces
RECURSIVE TextsOf(_)
TextsOf(n) ==
    IF n = 0 THEN {<<>>}
    ELSE LET shorter == TextsOf(n - 1) IN
         shorter \cup {text \o piece : text \in shorter, piece \in Pieces}

\* The driver's variables when run_single_experiment is entered for the first
\* experiment of a batch.
FirstExperiment ==
    /\ exper_num = 0
    /\ group_isolation = "1"
    /\ old_group_isolation = "0"
    /\ kill_slower = FALSE
    /\ timeout = FALSE
    /\ pre_experiment_cb = FALSE
    /\ post_experiment_cb = FALSE
    /\ tried_experiments = 0
    /\ passed_experiments = 0
    /\ cpuset_hierarchy = TRUE
    /\ input_file_count = 0
    /\ output_file_count = 0
    /\ refused = FALSE
    /\ allowed_error = 0
    /\ container_names = 0
    /\ live = {}
    /\ timevals = <<>>
    /\ started = {0}
    /\ failed = {}
    /\ built = {}
    /\ released = {}
    /\ switched = TRUE
    /\ runners = <<>>
    /\ pids_file_on = FALSE
    /\ nforked = 0
    /\ nreaped = 0
    /\ tpc = <<>>
    /\ payload = <<>>
    /\ pids_file = NoFile
    /\ moved_pids_file = NoFile
    /\ kill_list = <<>>
    /\ renamed = <<>>
    /\ signals = {}
    /\ first_exit = NotYet

\* run_single_experiment is entered with any text.
InitParse ==
    /\ FirstExperiment
    /\ pc = "Parse"
    /\ experiment \in TextsOf(MaxPieces)
    /\ seq_read_mb = MaxMB
    /\ existing_input_files = <<>>
    /\ input_requests = NoRequests
    /\ exper = <<>>
    /\ stages = <<>>

NextParse == Parse \/ AllocateFiles

SpecParse == InitParse /\ [][NextParse]_vars

\* The workers setup_worker is called for.
SynthWorkers ==
    { rdseq, rdseq \o <<".">> \o dir, rdrand, rdrand \o <<".">> \o delay \o <<"4">>,
      rdrand \o <<".", "x">>, wrseq, wrseq \o <<".", "b", "u", "f">>,
      wrseq \o <<".">> \o sync, wrseq \o <<".">> \o dir, sleep,
      <<"b", "o", "g", "u", "s">> }

\* setup_worker_files is entered for one container with any worker, repeat and
\* volume, in a batch that has made no input file yet or one of 2 MiB.
InitSynth ==
    /\ FirstExperiment
    /\ pc = "AllocateFiles"
    /\ \E worker \in SynthWorkers, repeat \in 1..MaxRepeat :
          /\ experiment = <<"1", " ">> \o worker \o <<"*", DigitChars[repeat + 1]>>
          /\ exper = parse_experiment(experiment).value
    /\ seq_read_mb \in 0..MaxMB
    /\ \/ /\ existing_input_files = <<>>
          /\ input_requests = NoRequests
       \/ /\ existing_input_files = [n \in {0} |-> 2]
          /\ input_requests = InputRequests([n \in {0} |-> 2], <<ZeroCmd(0, 0, 2)>>)
    /\ stages = <<"Parse">>

NextSynth == AllocateFiles

SpecSynth == InitSynth /\ [][NextSynth]_vars

\* The experiments of a batch of readers: "1000 rdseq" and "1000 rdseq*2", whose
\* workers ask input files of different sizes.
FileExperiments ==
    { [text |-> Text1000 \o <<" ">> \o rdseq, allowed |-> 1000],
      [text |-> Text1000 \o <<" ">> \o rdseq \o <<"*", "2">>, allowed |-> 1000] }

\* The loop of run_experiments is reached in a batch of readers, without early
\* termination and without hooks.
InitFiles ==
    /\ pc = "Loop"
    /\ exper_num = 0
    /\ group_isolation = "1"
    /\ old_group_isolation = "0"
    /\ kill_slower = FALSE
    /\ timeout = FALSE
    /\ pre_experiment_cb = FALSE
    /\ post_experiment_cb = FALSE
    /\ tried_experiments = 0
    /\ passed_experiments = 0
    /\ seq_read_mb \in {MaxMB - 1, MaxMB}
    /\ cpuset_hierarchy = TRUE
    /\ input_file_count = 0
    /\ output_file_count = 0
    /\ existing_input_files = <<>>
    /\ input_requests = NoRequests
    /\ experiment = <<>>
    /\ refused = FALSE
    /\ exper = <<>>
    /\ allowed_error = 0
    /\ container_names = 0
    /\ live = {}
    /\ timevals = <<>>
    /\ stages = <<>>
    /\ started = {}
    /\ failed = {}
    /\ built = {}
    /\ released = {}
    /\ switched = TRUE
    /\ runners = <<>>
    /\ pids_file_on = FALSE
    /\ nforked = 0
    /\ nreaped = 0
    /\ tpc = <<>>
    /\ payload = <<>>
    /\ pids_file = NoFile
    /\ moved_pids_file = NoFile
    /\ kill_list = <<>>
    /\ renamed = <<>>
    /\ signals = {}
    /\ first_exit = NotYet

LoopFiles == LoopOver(FileExperiments)

NextFiles ==
    \/ LoopFiles
    \/ Parse
    \/ AllocateFiles
    \/ SetupContainer
    \/ PreHook
    \/ Launch
    \/ ForkFails
    \/ RunReturn
    \/ Measure
    \/ Score
    \/ PostHook
    \/ RemoveOutputFiles
    \/ ReleaseContainer
    \/ Teardown
    \/ \E t \in Tasks : Fork(t)
    \/ \E t \in Tasks : MoveCpu(t)
    \/ \E t \in Tasks : MoveBlkio(t)
    \/ \E t \in Tasks : Spawn(t)
    \/ \E t \in Tasks : PayloadExit(t)
    \/ \E t \in Tasks : Wait(t)
    \/ \E t \in Tasks : Reap(t)

SpecFiles == InitFiles /\ [][NextFiles]_vars

\* The workers of the experiments enum_worker_runners is called for.
RunnerWorkers == {rdseq, rdrand, wrseq \o <<".">> \o sync, sleep}

\* The clauses of these experiments: a weight alone, or a weight, a worker and a
\* repeat.
RunnerClauses ==
    {<<"1">>} \cup {<<"1", " ">> \o worker \o <<"*", DigitChars[repeat + 1]>> :
                      worker \in RunnerWorkers, repeat \in 1..MaxRepeat}

\* the first n clauses, with commas between them
RECURSIVE ClausesText(_, _)
ClausesText(clauses, n) ==
    IF n = 1 THEN clauses[1] ELSE ClausesText(clauses, n - 1) \o <<",">> \o clauses[n]

\* run_single_experiment has made the containers of the first experiment and is
\* about to call enum_worker_runners; kill_slower and timeout are any.
InitRunners ==
    /\ pc = "Launch"
    /\ exper_num = 0
    /\ group_isolation = "1"
    /\ old_group_isolation = "0"
    /\ kill_slower \in BOOLEAN
    /\ timeout \in BOOLEAN
    /\ pre_experiment_cb = FALSE
    /\ post_experiment_cb = FALSE
    /\ tried_experiments = 0
    /\ passed_experiments = 0
    /\ seq_read_mb = MaxMB
    /\ cpuset_hierarchy = TRUE
    /\ refused = FALSE
    /\ \E n \in 1..MaxContainers :
          \E clauses \in [1..n -> RunnerClauses] :
             LET tree == parse_experiment(ClausesText(clauses, n)).value
                 files == setup_worker_files(Self(0, 0, <<>>, NoRequests), MaxMB,
                                             tree, n)
             IN  /\ experiment = ClausesText(clauses, n)
                 /\ exper = files.tree
                 /\ input_file_count = files.self.input_file_count
                 /\ output_file_count = files.self.output_file_count
                 /\ existing_input_files = files.self.existing_input_files
                 /\ input_requests = files.self.input_requests
                 /\ container_names = n
                 /\ live = {<<0, c>> : c \in 1..n}
    /\ allowed_error = 0
    /\ timevals = <<>>
    /\ stages = <<"Parse", "AllocateFiles", "BuildTree", "PreHook">>
    /\ started = {0}
    /\ failed = {}
    /\ built = {0}
    /\ released = {}
    /\ switched = TRUE
    /\ runners = <<>>
    /\ pids_file_on = FALSE
    /\ nforked = 0
    /\ nreaped = 0
    /\ tpc = <<>>
    /\ payload = <<>>
    /\ pids_file = NoFile
    /\ moved_pids_file = NoFile
    /\ kill_list = <<>>
    /\ renamed = <<>>
    /\ signals = {}
    /\ first_exit = NotYet

NextRunners == Launch

SpecRunners == InitRunners /\ [][NextRunners]_vars

\* ----------------------------------------------------------------- claims

Ended == pc \in {"done", "aborted"}

AllTasksOver == \A t \in Tasks : tpc[t] \in {"zombie", "reaped"}

\* C1 (as claimed): with early termination, exactly one task's rename of the
\* pending-workers file succeeds in an experiment (never more than one, and one
\* once every task is over), and a task whose rename did not succeed sends no
\* termination signal.
C1_ExactlyOneRenameSucceeds ==
    pids_file_on =>
        /\ Len(renamed) <= 1
        /\ AllTasksOver => Len(renamed) = 1
        /\ \A s \in signals : \E i \in 1..Len(renamed) : renamed[i] = s[1]

\* C2 (as claimed): with early termination, once every task is over, every
\* payload that was still running when the first payload exited, other than the
\* winner's own (the first task to rename the file), has been sent a termination
\* signal.
C2_RunningPayloadsAreSignalled ==
    (pids_file_on /\ AllTasksOver) =>
        \A u \in first_exit.running :
            \/ renamed # <<>> /\ u = renamed[1]
            \/ \E s \in signals : s[2] = u

\* C3 (as claimed): when the batch has ended, release_containers has completed
\* for every experiment whose setup_containers completed.
C3_ReleaseTreeAlwaysRuns == Ended => built \subseteq released

\* C4 (as claimed): when setup_containers failed at a unit after the first, no
\* created unit is left unreleased at the end of the experiment.
C4_BuildFailureReleasesUnits ==
    (Ended /\ container_names >= 1 /\ \E f \in failed : f[2] = "BuildTree") => live = {}

\* C5 (as claimed): when the batch has ended and a grammar error or a
\* resource-control error was raised in some experiment, every experiment of the
\* batch was still run.
C5_LaterExperimentsStillRun ==
    (Ended /\ \E f \in failed : f[2] \in {"Parse", "AllocateFiles", "BuildTree", "ReleaseTree"})
        => started = 0..(MaxExperiments - 1)

\* C5 (amended): an exception raised in experiment i ends run_experiments in
\* experiment i, and no experiment after i is ever started.
C5_ErrorAbortsBatch ==
    \A f \in failed :
        /\ pc = "aborted"
        /\ exper_num = f[1]
        /\ \A j \in started : j <= f[1]

C5_Witness ==
    /\ pc = "aborted"
    /\ \E f \in failed : f[2] \in {"Parse", "BuildTree"} /\ f[1] = 0
    /\ started = {0}

\* C6 (as claimed): when run_experiments has ended after switching
\* group_isolation to '1', the setting is again the value read before the batch.
C6_GroupIsolationRestored ==
    (Ended /\ switched) => group_isolation = old_group_isolation

\* C7: every live unit belongs to the experiment that is running, and no unit is
\* live when setup_containers starts.
C7_UnitsOfOneExperiment ==
    /\ \A u \in live : u[1] = exper_num
    /\ (pc = "BuildTree" /\ container_names = 0) => live = {}

C7_Witness ==
    /\ pc = "BuildTree"
    /\ container_names = 0
    /\ exper_num >= 1
    /\ 0 \in released

ExpectedStages ==
    <<"Parse", "AllocateFiles", "BuildTree">>
    \o (IF pre_experiment_cb THEN <<"PreHook">> ELSE <<>>)
    \o <<"LaunchAndRun", "Measure", "Score">>
    \o (IF post_experiment_cb THEN <<"PostHook">> ELSE <<>>)
    \o <<"RemoveOutputFiles", "ReleaseTree">>

\* C8: the stages an experiment has completed are always the first ones of
\* Parse, AllocateFiles, BuildTree, PreHook (if given), LaunchAndRun, Measure,
\* Score, PostHook (if given), RemoveOutputFiles, ReleaseTree, and all of them
\* when the experiment is over; every unit exists when the pre-hook has run, and
\* still when the post-hook has run.
C8_StageOrder ==
    /\ Len(stages) <= Len(ExpectedStages)
    /\ stages = SubSeq(ExpectedStages, 1, Len(stages))
    /\ (stages # <<>> /\ stages[Len(stages)] = "ReleaseTree") => stages = ExpectedStages
    /\ (stages # <<>> /\ stages[Len(stages)] \in {"PreHook", "PostHook"})
          => live = AllUnits

C8_Witness ==
    /\ pc = "Loop"
    /\ exper_num = 1
    /\ pre_experiment_cb
    /\ post_experiment_cb
    /\ stages = ExpectedStages

RECURSIVE SumFrom(_, _)
SumFrom(tv, c) == IF c > Len(tv) THEN 0 ELSE tv[c] + SumFrom(tv, c + 1)

\* floor(a / b) for a >= 0, b > 0, by its defining inequalities
Floor(a, b) == CHOOSE q \in 0..a : q * b <= a /\ a < (q + 1) * b

\* C10: score_experiment passes exactly when, for every container,
\* |floor(time * 1000 / total) - weight| <= allowed error, total being the sum of
\* the readings, or 1 when that sum is 0.
C10_PassIffMaxErrorAllowed ==
    (pc = "PostHook" /\ tried_experiments = 1) =>
        LET total == IF SumFrom(timevals, 1) = 0 THEN 1 ELSE SumFrom(timevals, 1) IN
        (passed_experiments = 1) <=>
            \A c \in 1..Len(exper) :
                Abs(Floor(timevals[c] * 1000, total) - exper[c].dtf) <= allowed_error

C10_Witness ==
    /\ pc = "PostHook"
    /\ Len(exper) = 2
    /\ \A c \in 1..Len(exper) : timevals[c] = 0 /\ exper[c].dtf = 0
    /\ passed_experiments = 1

\* C11 (as claimed): when measure_containers left a container without a
\* disk-time reading, Score does not raise: the experiment is counted as tried
\* with a verdict.
C11_MissingReadingStillScored ==
    \A f \in failed : ~(f[2] = "Score" /\ DOMAIN timevals # 1..Len(exper))

\* the worker names of the grammar
WorkerNames == {rdseq, rdrand, wrseq, sleep}

\* the part of a worker token before its '.'
NameOf(worker) ==
    LET dot == first_dot(worker, 1) IN
    IF dot = 0 THEN worker ELSE SubSeq(worker, 1, dot - 1)

\* the place of the first ';' of a text, Len(text) + 1 when there is none
FirstSemicolon(text) ==
    IF \E i \in 1..Len(text) : text[i] = ";"
    THEN CHOOSE i \in 1..Len(text) : text[i] = ";" /\ \A j \in 1..(i - 1) : text[j] # ";"
    ELSE Len(text) + 1

\* the clauses of a text: the parts between the commas, up to the first ';'
RECURSIVE Clauses(_, _)
Clauses(text, from) ==
    LET end == FirstSemicolon(text) - 1
        commas == {i \in from..end : text[i] = ","}
    IN  IF commas = {} THEN <<SubSeq(text, from, end)>>
        ELSE LET comma == CHOOSE i \in commas : \A j \in commas : i <= j IN
             <<SubSeq(text, from, comma - 1)>> \o Clauses(text, comma + 1)

\* a word that starts with a letter is written after a space of the clause
HasWorkerToken(clause) ==
    \E i \in 2..Len(clause) :
        clause[i] \notin (Delimiters \cup Digits) /\ clause[i - 1] \in Whitespace

\* Parse and AllocateFiles completed for the text
Accepted == Len(stages) >= 2 /\ stages[1] = "Parse" /\ stages[2] = "AllocateFiles"

\* C12 (as claimed): when parsing and command synthesis accepted a text, every
\* worker of its containers has a name of the grammar, every '*' of its clauses
\* directly follows a word, and no clause with a worker token gave a container
\* with no worker and repeat 0.
C12_AcceptedTextsAreWellFormed ==
    (Accepted /\ exper_num = 0) =>
        /\ \A c \in 1..Len(exper) :
              exper[c].worker # <<>> => NameOf(exper[c].worker) \in WorkerNames
        /\ \A i \in 1..(FirstSemicolon(experiment) - 1) :
              experiment[i] = "*" => i > 1 /\ experiment[i - 1] \notin Delimiters
        /\ \A c \in 1..Len(exper) :
              HasWorkerToken(Clauses(experiment, 1)[c])
                  => ~(exper[c].worker = <<>> /\ exper[c].worker_repeat = 0)

\* C13 (as claimed): when parse_experiment returned containers for a text, the
\* text has no character after a ';'.
C13_TrailingInputRejected ==
    (stages # <<>> /\ stages[1] = "Parse") =>
        \A i \in 1..(Len(experiment) - 1) : experiment[i] # ";"

\* text with a space put before its character i
InsertSpace(text, i) == SubSeq(text, 1, i - 1) \o <<" ">> \o SubSeq(text, i, Len(text))

\* character i of the text starts a weight, starts a worker token after a space,
\* or is the '*' after a worker token
IsWeightStart(text, i) == text[i] \in Digits /\ (i = 1 \/ text[i - 1] = ",")

IsWorkerStart(text, i) ==
    i > 1 /\ text[i] \notin (Delimiters \cup Digits) /\ text[i - 1] \in Whitespace

IsRepeatStar(text, i) == i > 1 /\ text[i] = "*" /\ text[i - 1] \notin Delimiters

\* the containers are those of valid clauses: a worker has a name of the
\* grammar and a positive repeat
ValidClauses ==
    \A c \in 1..Len(exper) :
        exper[c].worker # <<>> =>
            NameOf(exper[c].worker) \in WorkerNames /\ exper[c].worker_repeat >= 1

\* C14 (as claimed): for a text of valid clauses without ';' that parsing and
\* command synthesis accepted, a space put before a weight, before a worker
\* token or between a worker token and its '*' gives a text that parses to the
\* same containers.
C14_WhitespaceIsSkipped ==
    (Accepted /\ exper_num = 0 /\ ValidClauses
        /\ FirstSemicolon(experiment) > Len(experiment)) =>
        \A i \in 1..Len(experiment) :
            (\/ IsWeightStart(experiment, i)
             \/ IsWorkerStart(experiment, i)
             \/ IsRepeatStar(experiment, i))
                => parse_experiment(InsertSpace(experiment, i))
                       = parse_experiment(experiment)

\* C15 (as claimed): every container parse_experiment returned has
\* worker_repeat = 0 exactly when it has no worker.
C15_RepeatZeroIffNoWorker ==
    (stages # <<>> /\ stages[1] = "Parse") =>
        \A c \in 1..Len(exper) : (exper[c].worker_repeat = 0) <=> (exper[c].worker = <<>>)

\* the text of the experiment has a grammar error: parse_experiment or
\* setup_worker raises for it
GrammarError ==
    LET parsed == parse_experiment(experiment) IN
    \/ ~parsed.ok
    \/ ~setup_worker_files(Self(0, 0, <<>>, NoRequests), seq_read_mb, parsed.value,
                           Len(parsed.value)).ok

\* C16 (as claimed): when the first experiment of a batch was rejected for a
\* grammar error, no input file exists, no output file was named, no pids file
\* was removed and no unit was created.
C16_RejectedBeforeResources ==
    (pc = "aborted" /\ exper_num = 0 /\ GrammarError
        /\ failed \subseteq {<<0, "Parse">>, <<0, "AllocateFiles">>}) =>
        /\ existing_input_files = <<>>
        /\ output_file_count = 0
        /\ live = {}

\* the worker and the commands of the one container setup_worker_files was
\* entered for, once it has returned
OneContainerDone == pc = "BuildTree" /\ Len(exper) = 1 /\ exper_num = 0

\* C17: for every volume per worker p (seq_read_mb by the repeat, rounded
\* down), every command of 'wrseq' and of 'wrseq.buf' has count = 2 * p * 16,
\* every command of 'wrseq.sync' has count = floor(p / 3) * 16, and every
\* command of an 'rdrand' without a delay variant has no delay option.
C17_SynthesizedVolumes ==
    OneContainerDone =>
        LET worker == exper[1].worker
            p == Floor(seq_read_mb, exper[1].worker_repeat)
        IN  /\ Len(exper[1].worker_cmds) = exper[1].worker_repeat
            /\ \A w \in DOMAIN exper[1].worker_cmds :
                  LET cmd == exper[1].worker_cmds[w] IN
                  /\ worker \in {wrseq, wrseq \o <<".", "b", "u", "f">>}
                        => cmd.count = 2 * p * 16
                  /\ worker = wrseq \o <<".">> \o sync
                        => cmd.count = Floor(p, 3) * 16
                  /\ (startswith(worker, rdrand)
                         /\ ~startswith(variant_of(worker), delay))
                        => cmd.extra_options = <<>>

C17_Witness ==
    /\ OneContainerDone
    /\ exper[1].worker = wrseq
    /\ exper[1].worker_repeat = 2
    /\ seq_read_mb = 3
    /\ exper[1].worker_cmds[2].count = 32

\* C18 (as claimed): every command of 'wrseq.sync' writes floor(p / 2) MiB with
\* conv=fdatasync, p being the volume per worker.
C18_SyncHalves ==
    (OneContainerDone /\ exper[1].worker = wrseq \o <<".">> \o sync) =>
        \A w \in DOMAIN exper[1].worker_cmds :
            /\ exper[1].worker_cmds[w].count
                  = Floor(Floor(seq_read_mb, exper[1].worker_repeat), 2) * 16
            /\ exper[1].worker_cmds[w].extra_options = <<"conv=fdatasync">>

\* C18 (amended): every command of 'wrseq.sync' writes floor(p / 3) MiB (16
\* blocks of 64K each) to an output file with conv=fdatasync, p being the volume
\* per worker.
C18_SyncThirds ==
    (OneContainerDone /\ exper[1].worker = wrseq \o <<".">> \o sync) =>
        \A w \in DOMAIN exper[1].worker_cmds :
            /\ exper[1].worker_cmds[w].tool = "dd of"
            /\ exper[1].worker_cmds[w].count
                  = Floor(Floor(seq_read_mb, exper[1].worker_repeat), 3) * 16
            /\ exper[1].worker_cmds[w].extra_options = <<"conv=fdatasync">>

C18_Witness ==
    /\ OneContainerDone
    /\ exper[1].worker = wrseq \o <<".">> \o sync
    /\ exper[1].worker_repeat = 1
    /\ seq_read_mb = 4
    /\ exper[1].worker_cmds[1].count = 16

\* C19 (as claimed): setup_container never raises for the mount topology, be the
\* blkio cgroups in the cpuset hierarchy or in a hierarchy of their own.
C19_BothTopologiesAccepted == ~refused

\* C20 (as claimed): a task's payload has started only when the task has joined
\* its cpu group and its blkio group and, with a pending-workers file, has
\* appended its pid entry to it.
C20_PayloadStartsAfterRegistering ==
    \A t \in Tasks :
        payload[t] # "none" =>
            /\ tpc[t] \notin {"unforked", "start", "in_cpu", "in_blkio"}
            /\ pids_file_on => tpc[t] # "spawned"

\* The tasks that have appended their pid to the pending-workers file.
Registered == {t \in Tasks : tpc[t] \notin {"unforked", "start", "in_cpu",
                                             "in_blkio", "spawned"}}

\* C21 (as claimed): a termination signal goes only from a task to the payload
\* of a task bound to the same container, never to a payload of another
\* container of the experiment.
C21_SignalsStayInContainer ==
    \A s \in signals : runners[s[1]].container = runners[s[2]].container

\* C21 (amended): the pending-workers file is one for the whole experiment: a
\* termination signal goes from a task that won a rename to the payload of
\* another task that registered its pid in the file, whichever container that
\* task is bound to, and never to the sender's own payload.
C21_SignalsFollowTheFile ==
    \A s \in signals :
        /\ s[1] \in Tasks
        /\ \E i \in 1..Len(renamed) : renamed[i] = s[1]
        /\ s[2] \in Registered
        /\ s[2] # s[1]

\* C21 witness: a worker of one container has killed the running payload of a
\* worker of another container.
C21_Witness ==
    \E s \in signals :
        /\ runners[s[1]].container # runners[s[2]].container
        /\ ~runners[s[1]].timer
        /\ ~runners[s[2]].timer
        /\ payload[s[2]] = "killed"
        /\ payload[s[1]] = "exited"

\* the size recorded for input file n in the cache (0 when it has no entry)
Recorded(n) ==
    IF n \in DOMAIN existing_input_files THEN existing_input_files[n] ELSE 0

\* MiB written to input file n by the first k dd commands of the batch
RECURSIVE WrittenTo(_, _)
WrittenTo(n, k) ==
    IF k = 0 THEN 0
    ELSE WrittenTo(n, k - 1)
         + (IF input_requests.system[k].file = n THEN input_requests.system[k].count
            ELSE 0)

\* C22: in a session, the size recorded for an input file is the largest size
\* asked for it so far (so it never decreases); every dd command run for the
\* file writes a non-empty tail that starts where the file ended (seek = old
\* size, count = new size - old size), so a request no larger than the recorded
\* size writes nothing and nothing is written twice; and the file is as long as
\* recorded.
C22_InputFilesGrow ==
    LET largest == input_requests.largest
        system == input_requests.system
    IN  /\ \A n \in DOMAIN existing_input_files \cup DOMAIN largest :
              /\ n \in DOMAIN largest
              /\ Recorded(n) = largest[n]
              /\ WrittenTo(n, Len(system)) = Recorded(n)
        /\ \A k \in 1..Len(system) :
              /\ system[k].count > 0
              /\ system[k].seek = WrittenTo(system[k].file, k - 1)

\* C22 witness: the second experiment of a session has asked 4 MiB of input
\* file 0, which the first had made with 2 MiB, and dd has appended the 2 MiB
\* missing; input file 1, of 2 MiB, was made by the first experiment only.
C22_Witness ==
    /\ exper_num = 1
    /\ pc = "BuildTree"
    /\ input_file_count = 1
    /\ existing_input_files = [n \in {0, 1} |-> IF n = 0 THEN 4 ELSE 2]
    /\ input_requests.system
         = <<ZeroCmd(0, 0, 2), ZeroCmd(1, 0, 2), ZeroCmd(0, 2, 2)>>

\* the workers of container c that got a non-empty command
WithCommand(c) ==
    {w \in DOMAIN exper[c].worker_cmds : exper[c].worker_cmds[w].tool # ""}

\* the tasks made for the workers of container c
WorkerTasks(c) == {t \in Tasks : ~runners[t].timer /\ runners[t].container = c}

TimerTasks == {t \in Tasks : runners[t].timer}

\* C23: when enum_worker_runners has returned, each container of the experiment
\* has as many worker tasks as its workers got non-empty commands (as many as its
\* repeat count when its worker is one that gets a command), every task is bound
\* to a container of the experiment, and there is one timer task, bound to the
\* first container, when early termination is asked and a timeout is set, and
\* none otherwise.
C23_OneTaskPerCommand ==
    pc = "LaunchAndRun" =>
        /\ \A c \in 1..Len(exper) :
              /\ Cardinality(WorkerTasks(c)) = Cardinality(WithCommand(c))
              /\ exper[c].worker \notin {<<>>, sleep} =>
                    Cardinality(WorkerTasks(c)) = exper[c].worker_repeat
        /\ \A t \in Tasks : runners[t].container \in 1..Len(exper)
        /\ Cardinality(TimerTasks) = (IF kill_slower /\ timeout THEN 1 ELSE 0)
        /\ \A t \in TimerTasks : runners[t].container = 1

\* C23 witness: the tasks of "1 sleep*2,1 rdseq*2" with early termination and a
\* timeout: none for the first container's workers, two for the second's, and
\* the timer in the first container.
C23_Witness ==
    /\ pc = "LaunchAndRun"
    /\ Len(exper) = 2
    /\ exper[1].worker = sleep
    /\ exper[1].worker_repeat = 2
    /\ exper[2].worker = rdseq
    /\ exper[2].worker_repeat = 2
    /\ kill_slower
    /\ timeout
    /\ Len(runners) = 3
    /\ WorkerTasks(1) = {}
    /\ Cardinality(WorkerTasks(2)) = 2
    /\ TimerTasks # {}

\* MiB read by the first w commands of a container of sequential readers
RECURSIVE PlannedMB(_, _)
PlannedMB(cmds, w) == IF w = 0 THEN 0 ELSE PlannedMB(cmds, w - 1) + cmds[w].count

\* C24 (as claimed): the volumes handed to the workers of a container of
\* sequential readers, whatever its repeat count (1 or more), sum to
\* seq_read_mb.
C24_VolumesSumToTarget ==
    (OneContainerDone /\ exper[1].worker = rdseq /\ exper[1].worker_repeat >= 1) =>
        PlannedMB(exper[1].worker_cmds, exper[1].worker_repeat) = seq_read_mb

\* the counters are ordered, and a batch run to its end without an exception has
\* tried every experiment
CountersInRange ==
    /\ 0 <= passed_experiments
    /\ passed_experiments <= tried_experiments
    /\ tried_experiments <= Cardinality(started)
    /\ (failed = {} /\ exper_num >= MaxExperiments) =>
          tried_experiments = MaxExperiments

\* a step that leaves the stage Score counts the experiment as tried, and as
\* passed when its verdict is pass; no other step changes a counter
CountersStep ==
    IF pc = "Score" /\ pc' # "Score"
    THEN /\ tried_experiments' = tried_experiments + 1
         /\ DOMAIN timevals = 1..Len(exper)
         /\ passed_experiments' =
               passed_experiments
               + (IF score_experiment(exper, timevals, allowed_error) THEN 1 ELSE 0)
    ELSE UNCHANGED <<tried_experiments, passed_experiments>>

\* C25 (as claimed): in every state of a batch 0 <= passed_experiments <=
\* tried_experiments <= the number of experiments started; tried_experiments
\* grows by one for each experiment that reaches Score and passed_experiments
\* grows by one exactly when the verdict of that experiment is pass; and after a
\* batch in which no stage raised, tried_experiments is the number of
\* experiments of the batch.
C25_CountersFollowScores == [] CountersInRange /\ [][CountersStep]_vars

====
